---- MODULE Spec2Model ----
(***************************************************************************)
(* Model of the Yahoo!News enrichment pipeline of src/main.py: the SOURCE  *)
(* worksheet (the store), one run of main() after the other, and inside a  *)
(* run the passes of update_source_sheet (one per keyword), the sort and   *)
(* the pass of analyze_with_gemini_and_update_sheet.                       *)
(*                                                                         *)
(* Cells hold strings.  Non-ASCII literals of the program are written as   *)
(* ASCII tokens; StrLen gives the length of the string a token stands for. *)
(***************************************************************************)
EXTENDS Integers, Sequences, FiniteSets, TLC

VARIABLES
    store,              \* rows 2.. of the SOURCE worksheet (row 1 is the header)
    pc,                 \* position of main()
    existing_urls,      \* main's existing_urls set
    kw,                 \* index into SEARCH_KEYWORDS of the current keyword
    all_data,           \* data_rows: the rows read by get_all_values in the current pass
    i,                  \* loop index into data_rows (1-based)
    batch_update_data,  \* updates queued by update_source_sheet
    batch_updates,      \* updates queued by analyze_with_gemini_and_update_sheet
    count,              \* rows selected so far by the analysis pass
    gemini_log,         \* generate_content calls of this run, in order
    io,                 \* the calls to the outside made by the last step
    appended,           \* whether this run has appended rows
    exit_code,          \* exit status of the last run that ended ("NONE": no run yet)
    ran_through,        \* whether the last run that ended went through its passes to the end of main
    gemini_model,       \* whether the global gemini_model is set (FALSE: None)
    fetched_rows,       \* sheet rows get_article_details was called for in this run
    frame               \* the frame of a single function call followed step by step

vars == <<store, pc, existing_urls, kw, all_data, i, batch_update_data,
          batch_updates, count, gemini_log, io, appended, exit_code, ran_through, gemini_model,
          fetched_rows, frame>>

---------------------------------------------------------------------------
(* Bounds of the model *)

NumKeywords == 2        \* keywords searched per run (SEARCH_KEYWORDS has 8)
MaxRows == 2            \* data rows the worksheet may hold
MaxResults == 2         \* length of one search result list

(* Program constants *)

max_analyze == 30       \* rows analysed per run
MinBodyLen == 50        \* shortest body that is sent to the classifier
MaxPages == 10          \* pages of one article, and body cells of one row

---------------------------------------------------------------------------
(* String literals of the program *)

BODY_FAIL == "BODY_FAIL"               \* "（本文取得失敗）", 8 characters
DASH == "-"
NA == "N/A"
NA_SHORT == "N/A (short body)"         \* "N/A (本文短)"
NA_MISSING == "N/A (missing key)"      \* "N/A (キー欠損)"
UNAVAILABLE == "UNAVAILABLE"           \* "取得不可"
NISSAN == "NISSAN"                     \* "日産", the company the prompt tracks

expected_headers ==
    << "keyword", "URL", "post_time_str", "source", "title", "analysis_flag",
       "body_p1", "body_p2", "body_p3", "body_p4", "body_p5", "body_p6",
       "body_p7", "body_p8", "body_p9", "body_p10",
       "sentiment", "category", "company_info",
       "comment_count", "full_post_time",
       "comment_1", "comment_2", "comment_3", "comment_4", "comment_5",
       "comment_6", "comment_7", "comment_8", "comment_9", "comment_10",
       "nissan_mention", "nissan_sentiment" >>

\* headers.index(name), 0-based as in Python
HeaderIndex(name) ==
    (CHOOSE c \in 1..Len(expected_headers) : expected_headers[c] = name) - 1

\* The cell of a row under the header `name`
Cell(row, name) == row[HeaderIndex(name) + 1]

required_keys ==
    << "sentiment", "category", "company_info", "nissan_mention", "nissan_sentiment" >>

DetailHeaders ==
    { "body_p1", "body_p2", "body_p3", "body_p4", "body_p5", "body_p6",
      "body_p7", "body_p8", "body_p9", "body_p10", "comment_count", "full_post_time",
      "comment_1", "comment_2", "comment_3", "comment_4", "comment_5",
      "comment_6", "comment_7", "comment_8", "comment_9", "comment_10" }

ClassificationHeaders == { required_keys[k] : k \in 1..Len(required_keys) }

---------------------------------------------------------------------------
(* The news site *)

URLs == { "articles/a1", "articles/b2" }

\* One page as requests.get + BeautifulSoup see it: the HTTP status and the
\* text of div.article_body ("NO_CONTAINER" when the div is missing).
Page(status, text) == [exc |-> FALSE, status |-> status, text |-> text]

\* A request that raises requests.exceptions.RequestException
PageError == [exc |-> TRUE, status |-> 0, text |-> ""]

\* What the site serves for an article: pages 1, 2, ... (a page past the end
\* of the list answers 404), the digits of the comment button ("NONE": no
\* button), the datetime of the time tag ("NONE": no tag), the comments of
\* the comment pages and the time the search result list shows.
Site(u) ==
    IF u = "articles/a1"
    THEN [ pages |-> << Page(200, "TEXT60") >>,
           comment_count |-> "12",
           time |-> "2025/01/02 10:00:00",
           comments |-> << "COMMENT_A" >>,
           post_time_str |-> "2025/01/02 10:00:00" ]
    ELSE [ pages |-> << Page(200, "TEXT30A"), Page(200, "TEXT30B"), Page(200, "TEXT30A") >>,
           comment_count |-> "NONE",
           time |-> "NONE",
           comments |-> << >>,
           post_time_str |-> "2025/01/03 09:00:00" ]

\* len() of the string a token stands for
StrLen(s) ==
    CASE s = "" -> 0
      [] s = DASH -> 1
      [] s = BODY_FAIL -> 8
      [] s = "TEXT60" -> 60
      [] s = "TEXT30A" -> 30
      [] s = "TEXT30B" -> 30
      [] OTHER -> 10

\* Order of the values of column C (post time) under the sheet's sort
TimeRank(t) ==
    CASE t = "2025/01/02 10:00:00" -> 2
      [] t = "2025/01/03 09:00:00" -> 3
      [] OTHER -> 0

---------------------------------------------------------------------------
(* get_article_details *)

\* What one call of get_article_details sees of the site
DetailOutcomes == { "OK", "NET_ERROR", "NO_CONTAINER" }

PageView(u, outcome) ==
    LET site == Site(u) IN
    CASE outcome = "NET_ERROR" ->
            [ pages |-> << PageError >>, comment_count |-> "NONE", time |-> "NONE" ]
      [] outcome = "NO_CONTAINER" ->
            [ pages |-> << Page(200, "NO_CONTAINER") >> \o Tail(site.pages),
              comment_count |-> site.comment_count, time |-> site.time ]
      [] OTHER ->
            [ pages |-> site.pages, comment_count |-> site.comment_count,
              time |-> site.time ]

\* requests.get(f"{article_url}?page={page_num}")
Response(pages, page_num) ==
    IF page_num <= Len(pages) THEN pages[page_num] ELSE Page(404, "NO_CONTAINER")

RECURSIVE WalkPages(_, _, _)
\* for page_num in range(2, 11): the body parts when the loop is left
WalkPages(article_body_parts, pages, page_num) ==
    IF page_num > MaxPages THEN article_body_parts
    ELSE LET r == Response(pages, page_num) IN
         IF r.exc THEN article_body_parts
         ELSE IF r.status # 200 THEN article_body_parts
         ELSE IF r.text = "NO_CONTAINER" THEN article_body_parts
         ELSE IF r.text = article_body_parts[1] THEN article_body_parts
         ELSE WalkPages(Append(article_body_parts, r.text), pages, page_num + 1)

\* article_body_parts.extend(["-"] * (10 - len)); article_body_parts[:10]
PadTo10(parts, filler) ==
    [k \in 1..MaxPages |-> IF k <= Len(parts) THEN parts[k] ELSE filler]

\* (article_body_parts, comment_count, full_post_time); "NONE" is None
get_article_details(view) ==
    LET r1 == Response(view.pages, 1) IN
    IF r1.exc \/ r1.status # 200
    THEN [ body |-> [k \in 1..MaxPages |-> BODY_FAIL],
           comment_count |-> "0", full_post_time |-> "NONE" ]
    ELSE LET first == IF r1.text # "NO_CONTAINER" THEN r1.text ELSE BODY_FAIL
         IN  [ body |-> PadTo10(WalkPages(<< first >>, view.pages, 2), DASH),
               comment_count |-> IF view.comment_count # "NONE"
                                 THEN view.comment_count ELSE "0",
               full_post_time |-> view.time ]

(* get_yahoo_news_comments *)

\* One call either reads the comment pages or fails (status, exception)
CommentOutcomes == { "OK", "ERROR" }

get_yahoo_news_comments(comments_data, outcome) ==
    IF outcome = "OK" /\ comments_data # << >>
    THEN PadTo10(comments_data, DASH)
    ELSE [k \in 1..MaxPages |-> UNAVAILABLE]

---------------------------------------------------------------------------
(* The worksheet *)

\* A row appended by update_source_sheet: A..F filled, the other cells empty
\* (get_all_values pads every row to the width of the header row).
NewRow(keyword, u) ==
    [c \in 1..Len(expected_headers) |->
        CASE c = 1 -> keyword
          [] c = 2 -> u
          [] c = 3 -> Site(u).post_time_str
          [] c = 4 -> "source"
          [] c = 5 -> "title"
          [] c = 6 -> "TRUE"
          [] OTHER -> ""]

\* One entry of a batch_update: the cells first_col..last_col of sheet row
\* `row` (columns and rows 1-based as in A1 notation), and the values given.
Update(row, first_col, last_col, values) ==
    [row |-> row, first_col |-> first_col, last_col |-> last_col, values |-> values]

\* An update the Sheets API rejects: more values than the range has cells
Rejected(e) == Len(e.values) > e.last_col - e.first_col + 1

\* The rows after one update: values[k] goes to column first_col + k - 1 of
\* sheet row `row`, which is data row `row - 1`.
ApplyUpdate(rows, e) ==
    [r \in 1..Len(rows) |->
        IF r # e.row - 1 THEN rows[r]
        ELSE [c \in 1..Len(rows[r]) |->
                IF c >= e.first_col /\ c < e.first_col + Len(e.values)
                THEN e.values[c - e.first_col + 1]
                ELSE rows[r][c]]]

\* The entries of a batch that write the cell (r, c) of the data rows
Covering(data, r, c) ==
    { k \in 1..Len(data) :
        /\ data[k].row - 1 = r
        /\ c >= data[k].first_col
        /\ c < data[k].first_col + Len(data[k].values) }

\* ws.batch_update(data): every entry applied, in order, so that a cell
\* holds the value of the last entry that writes it
ApplyBatch(rows, data) ==
    [r \in 1..Len(rows) |->
        [c \in 1..Len(rows[r]) |->
            LET ks == Covering(data, r, c) IN
            IF ks = {} THEN rows[r][c]
            ELSE LET k == CHOOSE m \in ks : \A n \in ks : n <= m
                 IN  data[k].values[c - data[k].first_col + 1]]]

\* sortRange on column C, DESCENDING, rows 2.. (stable): a row comes after
\* the rows with a later time and after the earlier rows with the same time
SortDesc(rows) ==
    LET rank(r) == TimeRank(Cell(rows[r], "post_time_str"))
        position(r) ==
            Cardinality({ q \in 1..Len(rows) :
                            rank(q) > rank(r) \/ (rank(q) = rank(r) /\ q < r) }) + 1
    IN  [p \in 1..Len(rows) |-> rows[CHOOSE r \in 1..Len(rows) : position(r) = p]]

\* ws.col_values(2)[1:] as a set
load_existing_urls(rows, ok) ==
    IF ok THEN { Cell(rows[r], "URL") : r \in 1..Len(rows) } ELSE {}

---------------------------------------------------------------------------
(* update_source_sheet, step 1: the rows to append *)

RECURSIVE ArticlesToAdd(_, _, _)
ArticlesToAdd(new_articles, known, keyword) ==
    IF new_articles = << >> THEN << >>
    ELSE LET u == Head(new_articles) IN
         IF u \notin known
         THEN << NewRow(keyword, u) >> \o ArticlesToAdd(Tail(new_articles), known \cup {u}, keyword)
         ELSE ArticlesToAdd(Tail(new_articles), known, keyword)

\* Search result lists: every list of at most MaxResults URLs
ResultLists == UNION { [1..n -> URLs] : n \in 0..MaxResults }

Keyword(k) == IF k = 1 THEN "toyota" ELSE "nissan"

\* str.upper() on the flag values a sheet holds
Upper(t) == IF t \in { "true", "True", "TRUE" } THEN "TRUE" ELSE t

\* The analysis_flag test shared by both passes
FlagSet(analysis_flag) == Upper(analysis_flag) = "TRUE" \/ analysis_flag = "1"

\* A row test that looks at the flag alone
NeedsDetail_whatever_body(row) ==
    FlagSet(Cell(row, "analysis_flag"))

\* update_source_sheet's test of a row: fetch details and comments
NeedsDetail(row) ==
    /\ FlagSet(Cell(row, "analysis_flag"))
    /\ (Cell(row, "body_p1") = "" \/ Cell(row, "body_p1") = BODY_FAIL)

\* An update addressed by the index into data_rows instead of the sheet row
DetailUpdate_by_data_index(row_index, details, comments_data) ==
    Update(row_index - 1, HeaderIndex("body_p1") + 1, HeaderIndex("comment_1") + 9,
           details.body \o << details.comment_count >> \o << DASH >> \o comments_data)

\* The update queued for one row: G.. gets body, count, time, comments
DetailUpdate(row_index, details, comments_data) ==
    LET body_p1_col == HeaderIndex("body_p1")
        comment_1_col == HeaderIndex("comment_1")
        update_row_data ==
            details.body \o << details.comment_count >> \o << DASH >> \o comments_data
    IN  Update(row_index, body_p1_col + 1, comment_1_col + 9, update_row_data)

\* full_post_time.astimezone(timedelta(hours=9)): a timedelta is no tzinfo,
\* so the call raises TypeError whenever a time was extracted
AstimezoneRaises(details) == details.full_post_time # "NONE"

---------------------------------------------------------------------------
(* analyze_article_with_gemini *)

\* What generate_content does in a run of the pipeline: answer a JSON object
\* with all keys (about another company, or about the tracked company; an
\* object that lacks a key is JSON_PARTIAL of JsonAnswers), raise a GoogleAPIError
\* (quota exhaustion, ResourceExhausted, is one), answer text without a JSON
\* object, answer a malformed object, or raise anything else.
Responses ==
    { "JSON_FULL", "JSON_TRACKED", "API_ERROR", "QUOTA", "NO_JSON", "BAD_JSON", "EXCEPTION" }

JsonAnswers == { "JSON_FULL", "JSON_TRACKED", "JSON_PARTIAL" }

TransientFailures == { "API_ERROR", "EXCEPTION" }
NonQuotaFailures == { "API_ERROR", "NO_JSON", "BAD_JSON", "EXCEPTION" }

\* The object the classifier answers with
ClassifierObject ==
    [ sentiment |-> "NEGATIVE", category |-> "RECALL", company_info |-> "TOYOTA",
      nissan_mention |-> "MENTIONED", nissan_sentiment |-> "NEUTRAL" ]

\* An answer that names the tracked company and fills the two nissan keys
TrackedObject ==
    [ sentiment |-> "NEGATIVE", category |-> "RECALL", company_info |-> NISSAN,
      nissan_mention |-> "MENTIONED", nissan_sentiment |-> "NEGATIVE" ]

\* An answer without the sentiment key
PartialObject ==
    [ category |-> "RECALL", company_info |-> "TOYOTA",
      nissan_mention |-> "MENTIONED", nissan_sentiment |-> "NEUTRAL" ]

\* json.loads of the answered text
AnsweredObject(resp) ==
    CASE resp = "JSON_TRACKED" -> TrackedObject
      [] resp = "JSON_PARTIAL" -> PartialObject
      [] OTHER -> ClassifierObject

AllNA == [ key \in ClassificationHeaders |-> NA ]

\* A failure result that marks the sentiment field alone
analyze_article_with_gemini_sentiment_marker(resp) ==
    IF resp \in JsonAnswers
    THEN [ key \in ClassificationHeaders |->
             IF key \in DOMAIN AnsweredObject(resp)
             THEN AnsweredObject(resp)[key] ELSE NA_MISSING ]
    ELSE [ key \in ClassificationHeaders |-> IF key = "sentiment" THEN NA ELSE "" ]

\* The dict returned for one response of the service (one call, no retry)
analyze_article_with_gemini(resp) ==
    IF resp \in JsonAnswers
    THEN [ key \in ClassificationHeaders |->
             IF key \in DOMAIN AnsweredObject(resp)
             THEN AnsweredObject(resp)[key] ELSE NA_MISSING ]
    ELSE AllNA

RECURSIVE JoinedLen(_)
\* len(" ".join([text for text in cells if text and text != "-"]))
JoinedLen(cells) ==
    IF cells = << >> THEN 0
    ELSE LET rest == JoinedLen(Tail(cells))
             t == Head(cells)
         IN  IF t = "" \/ t = DASH THEN rest
             ELSE IF rest = 0 THEN StrLen(t) ELSE StrLen(t) + 1 + rest

\* row[body_col_idx - 1 : body_col_idx + 9]
BodyCells(row) == SubSeq(row, HeaderIndex("body_p1") + 1, HeaderIndex("body_p1") + MaxPages)

\* A row test that takes every marker that begins with "N/A"
NeedsAnalysis_any_marker(row) ==
    /\ FlagSet(Cell(row, "analysis_flag"))
    /\ Cell(row, "sentiment") \in { "", NA, NA_SHORT, NA_MISSING }

\* analyze_with_gemini_and_update_sheet's test of a row
NeedsAnalysis(row) ==
    /\ FlagSet(Cell(row, "analysis_flag"))
    /\ (Cell(row, "sentiment") = "" \/ Cell(row, "sentiment") = NA)

ShortBodyResult ==
    [ sentiment |-> NA_SHORT, category |-> NA, company_info |-> NA,
      nissan_mention |-> DASH, nissan_sentiment |-> DASH ]

\* The two updates queued for one analysed row
AnalysisUpdates(row_index, r) ==
    << Update(row_index, HeaderIndex("sentiment") + 1, HeaderIndex("company_info") + 1,
              << r["sentiment"], r["category"], r["company_info"] >>),
       Update(row_index, HeaderIndex("nissan_mention") + 1, HeaderIndex("nissan_sentiment") + 1,
              << r["nissan_mention"], r["nissan_sentiment"] >>) >>

---------------------------------------------------------------------------
(* main *)

\* A row entered into the worksheet before the run with every value under
\* its own header: A..F, the body and the comment count, nothing classified
EarlierRow(keyword, u) ==
    LET body == PadTo10(IF u = "articles/a1" THEN << "TEXT60" >> ELSE << "TEXT30A", "TEXT30B" >>, DASH)
        new == NewRow(keyword, u)
    IN  [c \in 1..Len(expected_headers) |->
            IF c > HeaderIndex("body_p1") /\ c <= HeaderIndex("body_p1") + MaxPages
            THEN body[c - HeaderIndex("body_p1")]
            ELSE IF c = HeaderIndex("comment_count") + 1 THEN "0"
            ELSE IF c = HeaderIndex("full_post_time") + 1 THEN DASH
            ELSE new[c]]

\* A row entered into the worksheet before the run with every value under
\* its own header, for a page that had a time tag and no body block: the
\* sentinel in body_p1 and the time of the tag in full_post_time
TimedRow(keyword, u) ==
    LET details == get_article_details(PageView(u, "NO_CONTAINER"))
        new == NewRow(keyword, u)
    IN  [c \in 1..Len(expected_headers) |->
            IF c > HeaderIndex("body_p1") /\ c <= HeaderIndex("body_p1") + MaxPages
            THEN details.body[c - HeaderIndex("body_p1")]
            ELSE IF c = HeaderIndex("comment_count") + 1 THEN details.comment_count
            ELSE IF c = HeaderIndex("full_post_time") + 1 THEN details.full_post_time
            ELSE new[c]]

\* The worksheet when the first run starts (sorted, newest first)
InitialSheets ==
    { << >>,
      << EarlierRow("toyota", "articles/a1") >>,
      << TimedRow("toyota", "articles/a1") >>,
      << EarlierRow("nissan", "articles/b2"), EarlierRow("toyota", "articles/a1") >> }

\* One call to the outside
Call(name, row, ok) == [call |-> name, row |-> row, ok |-> ok]

\* No single call is followed
NoFrame == [fn |-> "none"]

\* The state before main() is started, with one of `sheets` as the worksheet
\* and one of `frames` to follow
InitOn(sheets, frames) ==
    /\ store \in sheets
    /\ frame \in frames
    /\ pc = "idle"
    /\ existing_urls = {}
    /\ kw = 0
    /\ all_data = << >>
    /\ i = 0
    /\ batch_update_data = << >>
    /\ batch_updates = << >>
    /\ count = 0
    /\ gemini_log = << >>
    /\ io = << >>
    /\ appended = FALSE
    /\ exit_code = "NONE"
    /\ ran_through = FALSE
    /\ gemini_model = FALSE
    /\ fetched_rows = {}

InitWith(frames) == InitOn(InitialSheets, frames)

Init == InitWith({ NoFrame })

\* The environment of a run: which of the three variables are set
Envs ==
    [ SPREADSHEET_KEY : BOOLEAN, GCP_SERVICE_ACCOUNT_KEY : BOOLEAN, GOOGLE_API_KEY : BOOLEAN ]

FullEnv ==
    [ SPREADSHEET_KEY |-> TRUE, GCP_SERVICE_ACCOUNT_KEY |-> TRUE, GOOGLE_API_KEY |-> TRUE ]

\* os.environ.get(name): the read, and whether it found a value
Environ(name, env) == Call(name, 0, env[name])

\* The process ends: nothing of its memory is left
EndRun(status) ==
    /\ pc' = "idle"
    /\ exit_code' = status
    /\ ran_through' = (status = "0" /\ pc = "analyze")
    /\ existing_urls' = {}
    /\ kw' = 0
    /\ all_data' = << >>
    /\ i' = 0
    /\ batch_update_data' = << >>
    /\ batch_updates' = << >>
    /\ count' = 0
    /\ gemini_log' = << >>
    /\ appended' = FALSE
    /\ gemini_model' = FALSE
    /\ fetched_rows' = {}

\* The start of the script and main() up to the keyword loop: exit(1)
\* without SPREADSHEET_KEY, return from main without credentials, and
\* initialize_gemini, which leaves gemini_model unset without GOOGLE_API_KEY
StartRunWith(oks, envs) ==
    /\ UNCHANGED frame
    /\ pc = "idle"
    /\ \E env \in envs :
         IF ~env.SPREADSHEET_KEY
         THEN io' = << Environ("SPREADSHEET_KEY", env) >> /\ EndRun("1")
         ELSE IF ~env.GCP_SERVICE_ACCOUNT_KEY
         THEN /\ io' = << Environ("SPREADSHEET_KEY", env),
                          Environ("GCP_SERVICE_ACCOUNT_KEY", env) >>
              /\ EndRun("0")
         ELSE \E ok \in oks :
                /\ gemini_model' = env.GOOGLE_API_KEY
                /\ existing_urls' = load_existing_urls(store, ok)
                /\ io' = << Environ("SPREADSHEET_KEY", env),
                            Environ("GCP_SERVICE_ACCOUNT_KEY", env),
                            Environ("GOOGLE_API_KEY", env),
                            Call("col_values", 0, ok) >>
                /\ pc' = "search"
                /\ kw' = 1
                /\ UNCHANGED <<all_data, i, batch_update_data, batch_updates, count,
                               gemini_log, appended, exit_code, ran_through, fetched_rows>>
    /\ UNCHANGED store

\* Where main goes when update_source_sheet returns
AfterPass ==
    /\ all_data' = << >>
    /\ i' = 0
    /\ batch_update_data' = << >>
    /\ IF kw < NumKeywords
       THEN pc' = "search" /\ kw' = kw + 1
       ELSE pc' = "sort" /\ kw' = kw

\* get_yahoo_news_search_results, then update_source_sheet steps 1 and 2 and
\* the read of step 3
SearchAndAppendWith(oks) ==
    /\ UNCHANGED frame
    /\ pc = "search"
    /\ \E new_articles \in ResultLists :
         LET articles_to_add == ArticlesToAdd(new_articles, existing_urls, Keyword(kw)) IN
         \E append_ok \in (IF articles_to_add = << >> THEN {TRUE} ELSE oks) :
         LET rows == IF append_ok THEN store \o articles_to_add ELSE store
         IN  /\ articles_to_add = << >> \/ Len(store) + Len(articles_to_add) <= MaxRows
             /\ existing_urls' = existing_urls \cup { new_articles[k] : k \in 1..Len(new_articles) }
             /\ store' = rows
             /\ appended' = (appended \/ rows # store)
             /\ io' = IF articles_to_add = << >> THEN << >>
                      ELSE << Call("append_rows", 0, append_ok) >>
             /\ IF Len(rows) = 0
                THEN AfterPass
                ELSE /\ all_data' = rows
                     /\ i' = 1
                     /\ batch_update_data' = << >>
                     /\ pc' = "detail"
                     /\ kw' = kw
    /\ UNCHANGED <<batch_updates, count, gemini_log, exit_code, ran_through, gemini_model,
                   fetched_rows>>

\* One iteration of the row loop of update_source_sheet
DetailRowWith(detail_outcomes, comment_outcomes) ==
    /\ UNCHANGED frame
    /\ pc = "detail"
    /\ i <= Len(all_data)
    /\ LET row == all_data[i]
           row_index == i + 1
           article_url == Cell(row, "URL")
       IN  IF ~NeedsDetail(row)
           THEN /\ i' = i + 1
                /\ io' = << >>
                /\ UNCHANGED <<pc, kw, all_data, batch_update_data, fetched_rows>>
           ELSE \E outcome \in detail_outcomes, comments \in comment_outcomes :
                  LET details == get_article_details(PageView(article_url, outcome))
                      comments_data == get_yahoo_news_comments(Site(article_url).comments, comments)
                  IN  /\ fetched_rows' = fetched_rows \cup { row_index }
                      /\ io' = << Call("get_article_details", row_index, outcome = "OK"),
                                  Call("get_yahoo_news_comments", row_index, comments = "OK") >>
                      /\ IF AstimezoneRaises(details)
                         THEN AfterPass
                         ELSE /\ batch_update_data' = Append(batch_update_data,
                                    DetailUpdate(row_index, details, comments_data))
                              /\ i' = i + 1
                              /\ UNCHANGED <<pc, kw, all_data>>
    /\ UNCHANGED <<store, existing_urls, batch_updates, count, gemini_log, appended, exit_code,
                   ran_through, gemini_model>>

\* ws.batch_update(batch_update_data) after the loop
DetailWriteWith(oks) ==
    /\ UNCHANGED frame
    /\ pc = "detail"
    /\ i > Len(all_data)
    /\ IF batch_update_data = << >>
       THEN UNCHANGED store /\ io' = << >>
       ELSE \E ok \in oks :
              LET accepted == ok /\ \A k \in 1..Len(batch_update_data) :
                                        ~Rejected(batch_update_data[k])
              IN  /\ store' = IF accepted THEN ApplyBatch(store, batch_update_data) ELSE store
                  /\ io' = << Call("batch_update", 0, accepted) >>
    /\ AfterPass
    /\ UNCHANGED <<existing_urls, batch_updates, count, gemini_log, appended, exit_code,
                   ran_through, gemini_model, fetched_rows>>

\* sort_and_format_sheet
SortAndFormatWith(oks) ==
    /\ UNCHANGED frame
    /\ pc = "sort"
    /\ \E ok \in oks :
         /\ store' = IF ok THEN SortDesc(store) ELSE store
         /\ io' = << Call("sortRange", 0, ok) >>
    /\ pc' = "analyze_read"
    /\ UNCHANGED <<existing_urls, kw, all_data, i, batch_update_data, batch_updates, count,
                   gemini_log, appended, exit_code, ran_through, gemini_model, fetched_rows>>

\* analyze_with_gemini_and_update_sheet up to the row loop
AnalyzeRead ==
    /\ UNCHANGED frame
    /\ pc = "analyze_read"
    /\ io' = << >>
    /\ IF ~gemini_model \/ Len(store) = 0
       THEN EndRun("0")
       ELSE /\ all_data' = store
            /\ i' = 1
            /\ count' = 0
            /\ batch_updates' = << >>
            /\ pc' = "analyze"
            /\ UNCHANGED <<existing_urls, kw, batch_update_data, gemini_log, appended, exit_code,
                           ran_through, gemini_model, fetched_rows>>
    /\ UNCHANGED store

\* A cap that lets one more row through
CapReached_after_one_more(selected) == selected > max_analyze

\* if count >= max_analyze: break
CapReached(selected) == selected >= max_analyze

\* One iteration of the row loop of analyze_with_gemini_and_update_sheet
AnalyzeRowWith(responses) ==
    /\ UNCHANGED frame
    /\ pc = "analyze"
    /\ i <= Len(all_data)
    /\ ~CapReached(count) \/ ~NeedsAnalysis(all_data[i])
    /\ LET row == all_data[i]
           row_index == i + 1
       IN  IF ~NeedsAnalysis(row)
           THEN /\ io' = << >>
                /\ UNCHANGED <<count, batch_updates, gemini_log>>
           ELSE /\ count' = count + 1
                /\ IF JoinedLen(BodyCells(row)) < MinBodyLen
                   THEN /\ batch_updates' = batch_updates \o AnalysisUpdates(row_index, ShortBodyResult)
                        /\ io' = << >>
                        /\ UNCHANGED gemini_log
                   ELSE \E resp \in responses :
                        /\ gemini_log' = Append(gemini_log, [row |-> row_index, resp |-> resp])
                        /\ io' = << Call("generate_content", row_index, resp \in JsonAnswers) >>
                        /\ batch_updates' = batch_updates \o
                              AnalysisUpdates(row_index, analyze_article_with_gemini(resp))
    /\ i' = i + 1
    /\ UNCHANGED <<store, pc, existing_urls, kw, all_data, batch_update_data, appended,
                   exit_code, ran_through, gemini_model, fetched_rows>>

\* ws.batch_update(batch_updates) after the loop (or after the break at the
\* max_analyze-th selected row), and the end of main
AnalyzeWriteWith(oks) ==
    /\ UNCHANGED frame
    /\ pc = "analyze"
    /\ \/ i > Len(all_data)
       \/ i <= Len(all_data) /\ CapReached(count) /\ NeedsAnalysis(all_data[i])
    /\ IF batch_updates = << >>
       THEN UNCHANGED store /\ io' = << >>
       ELSE \E ok \in oks :
              /\ store' = IF ok THEN ApplyBatch(store, batch_updates) ELSE store
              /\ io' = << Call("batch_update", 0, ok) >>
    /\ EndRun("0")

\* The process is terminated from outside in the middle of a run
Kill ==
    /\ UNCHANGED frame
    /\ pc # "idle"
    /\ io' = << >>
    /\ EndRun("KILLED")
    /\ UNCHANGED store

StartRun == StartRunWith(BOOLEAN, Envs)
SearchAndAppend == SearchAndAppendWith(BOOLEAN)
DetailRow == DetailRowWith(DetailOutcomes, CommentOutcomes)
DetailWrite == DetailWriteWith(BOOLEAN)
SortAndFormat == SortAndFormatWith(BOOLEAN)
AnalyzeRow == AnalyzeRowWith(Responses)
AnalyzeWrite == AnalyzeWriteWith(BOOLEAN)

Next ==
    \/ StartRun
    \/ SearchAndAppend
    \/ DetailRow
    \/ DetailWrite
    \/ SortAndFormat
    \/ AnalyzeRead
    \/ AnalyzeRow
    \/ AnalyzeWrite
    \/ Kill

Spec == Init /\ [][Next]_vars

---------------------------------------------------------------------------
(* Properties *)

\* Rows of the sheet holding the URL u
Copies(rows, u) == Cardinality({ r \in 1..Len(rows) : Cell(rows[r], "URL") = u })

\* An update whose values the sheet already holds
Holds(rows, e) == ApplyUpdate(rows, e) = rows

\* C1: a URL that already has a row is never appended again: whenever a step
\* adds rows for a URL, the URL had no row before and has exactly one after
\* (runs in which load_existing_urls or append_rows fails included).
C1_NoSecondRow ==
    [][\A u \in URLs :
          Copies(store', u) # Copies(store, u) =>
              Copies(store, u) = 0 /\ Copies(store', u) = 1]_vars

\* C2: the write of the detail pass changes only cells under the detail
\* headers (body_p1..body_p10, comment_count, full_post_time, comment_1..10)
\* and the write of the classification pass changes only cells under the
\* five classification headers.
C2_WritesStayInTheirColumns ==
    [][\A r \in 1..Len(store) : \A c \in 1..Len(expected_headers) :
          (Len(store') = Len(store) /\ store'[r][c] # store[r][c]) =>
              /\ pc = "detail" => expected_headers[c] \in DetailHeaders
              /\ pc = "analyze" => expected_headers[c] \in ClassificationHeaders]_vars

\* C3: the output computed for a record is in the store before the next
\* record is processed: every update a pass has computed so far is held by
\* the sheet.
C3_OutputWrittenAtOnce ==
    /\ \A k \in 1..Len(batch_update_data) : Holds(store, batch_update_data[k])
    /\ \A k \in 1..Len(batch_updates) : Holds(store, batch_updates[k])

\* The calls of one step that concern sheet row `row_index`
CallsFor(calls, row_index) ==
    { k \in 1..Len(calls) : calls[k].row = row_index }

\* Data row r is left alone by a step: no fetch and no classifier call is
\* made for it and the sheet still holds a row with the same cells
Untouched(r) ==
    /\ CallsFor(io', r + 1) = {}
    /\ \E j \in 1..Len(store') : store'[j] = store[r]

\* Every stage of a row has stored a value, whatever the value
StagesDone(row) == Cell(row, "body_p1") # "" /\ Cell(row, "sentiment") # ""

\* Every stage of a row has stored a value that is no failure marker
Settled(row) ==
    /\ Cell(row, "body_p1") \notin { "", BODY_FAIL }
    /\ Cell(row, "sentiment") \notin { "", NA }

C6_CommentsAfterClassification ==
    [][\A k \in 1..Len(io') :
          /\ io'[k].call = "get_yahoo_news_comments" => (pc = "analyze" /\ io'[k].row <= i)
          /\ io'[k].call = "generate_content" => pc \notin { "search", "detail" }]_vars

QuotaHit == \E k \in 1..Len(gemini_log) : gemini_log[k].resp = "QUOTA"

\* C7: after a classifier call failed with quota exhaustion no further
\* classifier call is made in the run and the run ends with a non-zero status.
C7_QuotaAbortsRun ==
    [][QuotaHit =>
          /\ Len(gemini_log') <= Len(gemini_log)
          /\ pc' = "idle" => exit_code' # "0"]_vars

\* Classifier calls made so far for sheet row `row_index`
Attempts(row_index) ==
    Cardinality({ k \in 1..Len(gemini_log) : gemini_log[k].row = row_index })

\* The values queued for sheet row `row_index` under a classification header
Queued(updates, row_index, header) ==
    LET c == HeaderIndex(header) + 1
        k == CHOOSE k \in 1..Len(updates) :
                 /\ updates[k].row = row_index
                 /\ c >= updates[k].first_col
                 /\ c < updates[k].first_col + Len(updates[k].values)
    IN  updates[k].values[c - updates[k].first_col + 1]

IsQueued(updates, row_index) == \E k \in 1..Len(updates) : updates[k].row = row_index

\* C8: the fallback marker is produced for a record only after a transient
\* failure was followed by another attempt.
C8_TransientFailureRetried ==
    \A k \in 1..Len(gemini_log) :
        (/\ gemini_log[k].resp \in TransientFailures
         /\ IsQueued(batch_updates, gemini_log[k].row)
         /\ Queued(batch_updates, gemini_log[k].row, "sentiment") = NA)
        => Attempts(gemini_log[k].row) >= 2

\* Rows before data row j that the analysis pass selects
SelectedBefore(j) ==
    Cardinality({ m \in 1..(j - 1) : NeedsAnalysis(all_data[m]) })

\* C9: when the classification of a record ends in a non-quota failure, each
\* of its five classification fields gets the marker "N/A", the row loop goes
\* on with the next row, and at the end of the pass every selected row (up
\* to max_analyze) has its update queued and, when the write succeeds, has
\* the queued values in the sheet.
C9_FailureMarkedAndPassGoesOn ==
    /\ [](\A k \in 1..Len(gemini_log) :
             gemini_log[k].resp \in NonQuotaFailures =>
                 \A h \in ClassificationHeaders :
                     Queued(batch_updates, gemini_log[k].row, h) = NA)
    /\ [][/\ (/\ Len(gemini_log') > Len(gemini_log)
              /\ gemini_log'[Len(gemini_log')].resp \in NonQuotaFailures)
             => (pc' = "analyze" /\ i' = i + 1)
          /\ (pc = "analyze" /\ pc' = "idle" /\ exit_code' = "0") =>
                \A j \in 1..Len(all_data) :
                    (NeedsAnalysis(all_data[j]) /\ SelectedBefore(j) < max_analyze) =>
                        /\ IsQueued(batch_updates, j + 1)
                        /\ io' = << Call("batch_update", 0, TRUE) >> =>
                              \A h \in ClassificationHeaders :
                                  Cell(store'[j], h) = Queued(batch_updates, j + 1, h)]_vars

\* C9 witness: a record's classification failed without quota exhaustion and
\* a later record has been classified by the service in the same pass
C9_Witness ==
    \E k, m \in 1..Len(gemini_log) :
        /\ k < m
        /\ gemini_log[k].resp \in NonQuotaFailures
        /\ gemini_log[m].row > gemini_log[k].row
        /\ gemini_log[m].resp = "JSON_FULL"
        /\ Queued(batch_updates, gemini_log[m].row, "sentiment") = ClassifierObject["sentiment"]

\* C10: when the classification pass of a run has ended and its write did
\* not fail, every record whose body is the body-unavailable sentinel holds
\* the no-content marker in its five classification fields, and the
\* classifier is never called for such a record.
C10_UnavailableBodyMarked ==
    /\ [][(/\ pc = "analyze" /\ pc' = "idle" /\ exit_code' = "0"
           /\ io' # << Call("batch_update", 0, FALSE) >>) =>
             \A r \in 1..Len(store') :
                 Cell(store'[r], "body_p1") = BODY_FAIL =>
                     \A h \in ClassificationHeaders :
                         Cell(store'[r], h) = ShortBodyResult[h]]_vars
    /\ [](\A k \in 1..Len(gemini_log) :
             Cell(all_data[gemini_log[k].row - 1], "body_p1") # BODY_FAIL)

---------------------------------------------------------------------------
(* Repeated runs in which every fetch, classifier call and write succeeds *)

InitReliable == Init /\ store = << >>

StartRunOK == StartRunWith({TRUE}, { FullEnv })
SearchAndAppendOK == SearchAndAppendWith({TRUE})
DetailRowOK == DetailRowWith({"OK"}, {"OK"})
DetailWriteOK == DetailWriteWith({TRUE})
SortAndFormatOK == SortAndFormatWith({TRUE})
AnalyzeRowOK == AnalyzeRowWith({"JSON_FULL"})
AnalyzeWriteOK == AnalyzeWriteWith({TRUE})

NextReliable ==
    \/ StartRunOK
    \/ SearchAndAppendOK
    \/ DetailRowOK
    \/ DetailWriteOK
    \/ SortAndFormatOK
    \/ AnalyzeRead
    \/ AnalyzeRowOK
    \/ AnalyzeWriteOK

\* Runs follow one another and every step of a run is taken
LiveSpec == InitReliable /\ [][NextReliable]_vars /\ WF_vars(NextReliable)

\* The body get_article_details returns for u when every fetch succeeds
FetchedBody(u) == get_article_details(PageView(u, "OK")).body

\* The record of u holds its fetched text and classifier-produced values
Enriched(u) ==
    \E r \in 1..Len(store) :
        /\ Cell(store[r], "URL") = u
        /\ BodyCells(store[r]) = FetchedBody(u)
        /\ Cell(store[r], "sentiment") = ClassifierObject["sentiment"]
        /\ Cell(store[r], "category") = ClassifierObject["category"]
        /\ Cell(store[r], "company_info") = ClassifierObject["company_info"]

\* C4: under repeated runs without failures every appended record whose
\* article body has at least 50 characters eventually holds its fetched body
\* and the classifier's sentiment, category and company_info.
C4_EventuallyEnriched ==
    \A u \in URLs :
        JoinedLen(FetchedBody(u)) >= MinBodyLen =>
            [](Copies(store, u) > 0 => <>Enriched(u))

---------------------------------------------------------------------------
(* One call of get_article_details, and one row test of update_source_sheet,
   followed step by step for arbitrary answers of the site *)

MaxServed == 3          \* pages the site holds for one article

\* The texts of a site that serves a new page for every page number
PageTexts ==
    << "PAGE_1", "PAGE_2", "PAGE_3", "PAGE_4", "PAGE_5", "PAGE_6",
       "PAGE_7", "PAGE_8", "PAGE_9", "PAGE_10", "PAGE_11" >>

EndlessPages == [n \in 1..Len(PageTexts) |-> Page(200, PageTexts[n])]

\* What one request may be answered with: a page with text, a page whose
\* div.article_body is empty, a page without the div, a 404, an exception
PageKinds ==
    { Page(200, "TEXT60"), Page(200, "TEXT30A"), Page(200, ""),
      Page(200, "NO_CONTAINER"), Page(404, "NO_CONTAINER"), PageError }

\* Articles of N - 1 pages with new text each, followed by one more answer:
\* any of PageKinds, or page 1 once more
LongLists ==
    { SubSeq(EndlessPages, 1, N - 1) \o << last >> :
        N \in 2..MaxPages, last \in PageKinds \cup { EndlessPages[1] } }

PageLists ==
    UNION { [1..n -> PageKinds] : n \in 1..MaxServed } \cup { EndlessPages } \cup LongLists

\* The sites a call may meet: the pages, and whether page 1 has a time tag
Views ==
    [ pages : PageLists, comment_count : { "NONE" },
      time : { "NONE", "2025/01/02 10:00:00" } ]

\* The return value before the call has returned
NoReturn == [ body |-> << >>, comment_count |-> "", full_post_time |-> "NONE" ]

\* The row update_source_sheet leaves after a fetch that failed
SentinelRow(keyword, u) ==
    ApplyUpdate(<< NewRow(keyword, u) >>,
                DetailUpdate(2, get_article_details(PageView(u, "NET_ERROR")),
                             get_yahoo_news_comments(<< >>, "ERROR")))[1]

\* Rows a row test may meet: never fetched, fetched with text, fetch failed
ProbeRows ==
    UNION { { NewRow("toyota", u), EarlierRow("toyota", u), SentinelRow("toyota", u) } :
            u \in URLs }

\* The day of January 2025 on which the run takes place
Days == { 4, 30 }

DetailFrames ==
    [ fn : { "get_article_details" }, view : Views, phase : { "call" },
      page_num : { 1 }, article_body_parts : { << >> }, requested : { << >> },
      ret : { NoReturn }, caller : { "waiting" } ]

SelectFrames ==
    [ fn : { "update_source_sheet" }, row : ProbeRows, today : Days, ret : { "NONE" } ]

\* The JSON objects the classifier may answer with: any of the five keys and
\* a key nobody asked for may be present, each with one of two values
AnswerKeys == ClassificationHeaders \cup { "reason" }

Objects ==
    UNION { [keys -> { "NEGATIVE", DASH }] : keys \in SUBSET AnswerKeys }

\* What a call of analyze_article_with_gemini meets: a JSON object, or one
\* of the failures of Responses
Answers ==
    [ resp : { "JSON" },
      object : Objects \cup { ClassifierObject, TrackedObject, PartialObject } ]
    \cup [ resp : Responses \ JsonAnswers, object : { << >> } ]

AnalyzeFrames ==
    [ fn : { "analyze_article_with_gemini" }, gemini_model : BOOLEAN, answer : Answers,
      phase : { "call" }, result : { << >> }, ret : { << >> } ]

InitCall ==
    InitWith(DetailFrames \cup SelectFrames \cup AnalyzeFrames) /\ store = << >>

\* The pipeline stands still while a single call is followed
PipelineIdle ==
    UNCHANGED <<store, pc, existing_urls, kw, all_data, i, batch_update_data,
                batch_updates, count, gemini_log, io, appended, exit_code, ran_through, gemini_model,
                fetched_rows>>

\* The request for page 1 and what is read from it
FirstPage ==
    /\ frame.fn = "get_article_details"
    /\ frame.phase = "call"
    /\ LET r1 == Response(frame.view.pages, 1) IN
       IF r1.exc \/ r1.status # 200
       THEN frame' = [frame EXCEPT
                        !.requested = << 1 >>,
                        !.phase = "returned",
                        !.ret = [ body |-> [k \in 1..MaxPages |-> BODY_FAIL],
                                  comment_count |-> "0", full_post_time |-> "NONE" ]]
       ELSE frame' = [frame EXCEPT
                        !.requested = << 1 >>,
                        !.phase = "loop",
                        !.page_num = 2,
                        !.article_body_parts =
                            << IF r1.text # "NO_CONTAINER" THEN r1.text ELSE BODY_FAIL >>]
    /\ PipelineIdle

\* Loop tests without the comparison with page 1
LoopBreaks_without_first_page_test(article_body_parts, r) ==
    \/ r.exc
    \/ r.status # 200
    \/ r.text = "NO_CONTAINER"

\* The tests of one loop iteration that leave the loop for the response r
LoopBreaks(article_body_parts, r) ==
    \/ r.exc
    \/ r.status # 200
    \/ r.text = "NO_CONTAINER"
    \/ r.text = article_body_parts[1]

\* A range that ends one page later
RangeExhausted_one_page_later(page_num) == page_num > MaxPages + 1

\* range(2, 11) has no page number left
RangeExhausted(page_num) == page_num > MaxPages

\* One iteration of for page_num in range(2, 11)
NextPage ==
    /\ frame.fn = "get_article_details"
    /\ frame.phase = "loop"
    /\ ~RangeExhausted(frame.page_num)
    /\ LET r == Response(frame.view.pages, frame.page_num) IN
       IF LoopBreaks(frame.article_body_parts, r)
       THEN frame' = [frame EXCEPT
                        !.requested = Append(@, frame.page_num),
                        !.phase = "after_loop"]
       ELSE frame' = [frame EXCEPT
                        !.requested = Append(@, frame.page_num),
                        !.article_body_parts = Append(@, r.text),
                        !.page_num = @ + 1]
    /\ PipelineIdle

\* The padding and the return after the loop
Return ==
    /\ frame.fn = "get_article_details"
    /\ \/ frame.phase = "after_loop"
       \/ frame.phase = "loop" /\ RangeExhausted(frame.page_num)
    /\ frame' = [frame EXCEPT
                   !.phase = "returned",
                   !.ret = [ body |-> PadTo10(frame.article_body_parts, DASH),
                             comment_count |-> IF frame.view.comment_count # "NONE"
                                               THEN frame.view.comment_count ELSE "0",
                             full_post_time |-> frame.view.time ]]
    /\ PipelineIdle

\* update_source_sheet after the call: the update is queued and the row loop
\* goes on, or astimezone raises and the pass is over
CallerGoesOn ==
    /\ frame.fn = "get_article_details"
    /\ frame.phase = "returned"
    /\ frame' = [frame EXCEPT
                   !.phase = "done",
                   !.caller = IF AstimezoneRaises(frame.ret)
                              THEN "pass_ended" ELSE "next_row"]
    /\ PipelineIdle

\* The row test of update_source_sheet
SelectRow ==
    /\ frame.fn = "update_source_sheet"
    /\ frame.ret = "NONE"
    /\ frame' = [frame EXCEPT !.ret = IF NeedsDetail(frame.row) THEN "FETCH" ELSE "SKIP"]
    /\ PipelineIdle

\* analyze_article_with_gemini up to json.loads: without a model, and on
\* every failure of the call or of the parse, the five "N/A" are returned
GenerateContent ==
    /\ frame.fn = "analyze_article_with_gemini"
    /\ frame.phase = "call"
    /\ IF ~frame.gemini_model \/ frame.answer.resp # "JSON"
       THEN frame' = [frame EXCEPT !.phase = "returned", !.ret = AllNA]
       ELSE frame' = [frame EXCEPT !.phase = "parsed", !.result = frame.answer.object]
    /\ PipelineIdle

\* A check of the keys that gives up the whole object when a key is missing
FillMissing_discarding_partial(result) ==
    IF ClassificationHeaders \subseteq DOMAIN result THEN result ELSE AllNA

\* for key in required_keys: if key not in result: result[key] = "N/A (...)"
FillMissing(result) ==
    [ key \in DOMAIN result \cup ClassificationHeaders |->
        IF key \in DOMAIN result THEN result[key] ELSE NA_MISSING ]

\* The check of the keys and the return of the result
CheckKeys ==
    /\ frame.fn = "analyze_article_with_gemini"
    /\ frame.phase = "parsed"
    /\ frame' = [frame EXCEPT !.phase = "returned", !.ret = FillMissing(frame.result)]
    /\ PipelineIdle

NextCall ==
    \/ FirstPage
    \/ NextPage
    \/ Return
    \/ CallerGoesOn
    \/ SelectRow
    \/ GenerateContent
    \/ CheckKeys

CallSpec == InitCall /\ [][NextCall]_vars

\* Day of January 2025 of a post time
PostedDay(t) ==
    CASE t = "2025/01/02 10:00:00" -> 2
      [] t = "2025/01/03 09:00:00" -> 3
      [] OTHER -> 0

\* The posted time lies within the trailing 3-day window
WithinWindow(row, today) == today - PostedDay(Cell(row, "post_time_str")) <= 3

\* C11: the detail fetch is made for a record exactly when its body is empty,
\* or its body is filled or unavailable and its posted time lies within the
\* trailing 3-day window.
C11_FetchedExactlyWhenPending ==
    (frame.fn = "update_source_sheet" /\ frame.ret # "NONE") =>
        (frame.ret = "FETCH" <=>
            \/ Cell(frame.row, "body_p1") = ""
            \/ WithinWindow(frame.row, frame.today))

\* Primary classification is pending for a row: one of the three fields is
\* empty and the body is filled
PrimaryPending(row) ==
    /\ \E h \in { "company_info", "category", "sentiment" } : Cell(row, h) = ""
    /\ Cell(row, "body_p1") \notin { "", BODY_FAIL }

\* C12: the analysis pass selects a record exactly when at least one of
\* company_info, category, sentiment is empty and the body is filled (neither
\* empty nor the unavailable sentinel).
C12_SelectedExactlyWhenPending ==
    [][(pc = "analyze" /\ i <= Len(all_data) /\ i' = i + 1) =>
          (count' = count + 1 <=> PrimaryPending(all_data[i]))]_vars

\* C13: every record whose company_info names the tracked company holds the
\* not-applicable marker "-" in nissan_mention and nissan_sentiment.
C13_TrackedCompanyNotApplicable ==
    \A r \in 1..Len(store) :
        Cell(store[r], "company_info") = NISSAN =>
            /\ Cell(store[r], "nissan_mention") = DASH
            /\ Cell(store[r], "nissan_sentiment") = DASH

\* The number a comment count of the site stands for ("NONE": no button)
CountValue(s) == IF s = "12" THEN 12 ELSE 0

\* C14: get_yahoo_news_comments runs for a record only when its comment
\* count exceeds the threshold or its company_info is the tracked company
\* with negative sentiment; a count of zero exceeds no threshold, so a record
\* without comments, of another company and without negative sentiment never
\* has its comments fetched.
C14_CommentsOnlyWhenPending ==
    \A k \in 1..Len(io) :
        (/\ io[k].call = "get_yahoo_news_comments"
         /\ pc = "detail"
         /\ io[k].row - 1 <= Len(all_data)) =>
            LET row == all_data[io[k].row - 1] IN
            \/ CountValue(Site(Cell(row, "URL")).comment_count) > 0
            \/ /\ Cell(row, "company_info") = NISSAN
               /\ Cell(row, "sentiment") = "NEGATIVE"

\* A call of get_article_details has returned
Returned == frame.fn = "get_article_details" /\ frame.phase \in { "returned", "done" }

\* Page N was requested by the call
WasRequested(N) == \E k \in 1..Len(frame.requested) : frame.requested[k] = N

\* The site answers the request for page N with a page that has a body block
HasText(N) ==
    LET r == Response(frame.view.pages, N)
    IN  ~r.exc /\ r.status = 200 /\ r.text # "NO_CONTAINER"

\* The walk stopped at page N: N is the last page requested and the body is
\* the texts of pages 1..N-1 in order, then "-"
StoppedAt(N) ==
    /\ frame.requested = [k \in 1..N |-> k]
    /\ frame.ret.body =
          [k \in 1..MaxPages |->
              IF k < N THEN Response(frame.view.pages, k).text ELSE DASH]

\* C15: when the text of a requested page N in 2..10 is identical to the text
\* of page 1, the walk stops at N: the body holds the texts of pages 1..N-1
\* in order, then "-", and no page after N is requested.
C15_DuplicateOfFirstPageStops ==
    Returned =>
        \A N \in 2..MaxPages :
            (/\ WasRequested(N)
             /\ HasText(1) /\ HasText(N)
             /\ Response(frame.view.pages, N).text = Response(frame.view.pages, 1).text)
            => StoppedAt(N)

\* C15 witness: page 3 repeats page 1 after a page 2 with another text
C15_Witness ==
    /\ Returned
    /\ WasRequested(3)
    /\ HasText(1) /\ HasText(2) /\ HasText(3)
    /\ Response(frame.view.pages, 1).text = "TEXT60"
    /\ Response(frame.view.pages, 2).text = "TEXT30A"
    /\ Response(frame.view.pages, 3).text = "TEXT60"
    /\ frame.ret.body[2] = "TEXT30A"

\* C16: when a requested page N in 2..10 is absent (non-200) or its text
\* block is empty, the walk stops at N: no page after N is requested and
\* nothing of page N or later enters the body.
C16_AbsentOrEmptyPageStops ==
    Returned =>
        \A N \in 2..MaxPages :
            (/\ WasRequested(N)
             /\ HasText(1)
             /\ ~Response(frame.view.pages, N).exc
             /\ \/ Response(frame.view.pages, N).status # 200
                \/ Response(frame.view.pages, N).text = "")
            => StoppedAt(N)

\* C17: a call requests at most 10 pages and never stands still before it
\* has returned; on every return path the body has exactly 10 slots (and is
\* the value get_article_details gives for the site).
C17_TenPagesTenSlots ==
    frame.fn = "get_article_details" =>
        /\ Len(frame.requested) <= MaxPages
        /\ frame.phase \in { "call", "loop", "after_loop" } =>
              ENABLED (FirstPage \/ NextPage \/ Return)
        /\ Returned =>
              /\ Len(frame.ret.body) = MaxPages
              /\ frame.ret = get_article_details(frame.view)

\* C17 witness: the site serves a new page for every page number and the
\* call has returned after its tenth request
C17_Witness ==
    /\ Returned
    /\ frame.view.pages = EndlessPages
    /\ frame.requested = [k \in 1..MaxPages |-> k]
    /\ frame.ret.body[MaxPages] = PageTexts[MaxPages]

\* C18: a network failure on any page never propagates: the call returns, a
\* failure on page N >= 2 leaves the texts of pages 1..N-1 in the result, and
\* update_source_sheet goes on to the next record of the pass.
C18_NetworkFailureNeverFatal ==
    /\ (frame.fn = "get_article_details" /\ frame.phase \in { "call", "loop", "after_loop" })
          => ENABLED (FirstPage \/ NextPage \/ Return)
    /\ Returned =>
          \A N \in 1..MaxPages :
              (WasRequested(N) /\ Response(frame.view.pages, N).exc) =>
                  /\ (N >= 2 /\ HasText(1)) => StoppedAt(N)
                  /\ frame.phase = "done" => frame.caller = "next_row"

\* C19: get_article_details never yields an empty body: when page 1 gives
\* no text, body_p1 is the body-unavailable sentinel, never empty.
C19_BodyNeverEmpty ==
    Returned =>
        /\ frame.ret.body[1] # ""
        /\ (~HasText(1) \/ Response(frame.view.pages, 1).text = "")
              => frame.ret.body[1] = BODY_FAIL

\* The cell holds a posted time in full precision
IsTime(t) == TimeRank(t) > 0

---------------------------------------------------------------------------
(* The merge of a fetched comment count *)

\* The fetch behind the queued update e read page 1 and found no comment
\* button: the article has none and the body written is no sentinel
CountNotFound(e) ==
    /\ e.row - 1 <= Len(all_data)
    /\ Site(Cell(all_data[e.row - 1], "URL")).comment_count = "NONE"
    /\ e.values[1] # BODY_FAIL

\* C21: when a detail fetch did not find the comment count, the write of the
\* pass leaves the cell under comment_count of that record as it was, and no
\* cell of the store ever holds the literal -1.
C21_NotFoundCountLeftAlone ==
    /\ [][(pc = "detail" /\ i > Len(all_data) /\ Len(store') = Len(store)) =>
             \A k \in 1..Len(batch_update_data) :
                 CountNotFound(batch_update_data[k]) =>
                     Cell(store'[batch_update_data[k].row - 1], "comment_count") =
                         Cell(store[batch_update_data[k].row - 1], "comment_count")]_vars
    /\ [](\A r \in 1..Len(store) : \A c \in 1..Len(expected_headers) :
             store[r][c] # "-1")

---------------------------------------------------------------------------
(* The result of one classifier call *)

\* A call of analyze_article_with_gemini has returned
Analyzed == frame.fn = "analyze_article_with_gemini" /\ frame.phase = "returned"

\* C22: analyze_article_with_gemini returns on every path, and what it
\* returns has all five keys; when the classifier answered a JSON object,
\* every key the object has keeps the object's value and exactly the missing
\* keys hold the marker "N/A (missing key)".  (The result is the one the
\* pipeline's analyze_article_with_gemini gives for the same answer.)
C22_FiveKeysOnEveryPath ==
    /\ (frame.fn = "analyze_article_with_gemini" /\ frame.phase # "returned")
          => ENABLED (GenerateContent \/ CheckKeys)
    /\ Analyzed =>
          /\ ClassificationHeaders \subseteq DOMAIN frame.ret
          /\ (frame.gemini_model /\ frame.answer.resp = "JSON") =>
                \A key \in ClassificationHeaders :
                    frame.ret[key] = IF key \in DOMAIN frame.answer.object
                                     THEN frame.answer.object[key] ELSE NA_MISSING
          /\ frame.gemini_model =>
                \A resp \in Responses \cup JsonAnswers :
                    (\/ resp = frame.answer.resp
                     \/ resp \in JsonAnswers /\ frame.answer.resp = "JSON"
                           /\ frame.answer.object = AnsweredObject(resp))
                    => frame.ret = analyze_article_with_gemini(resp)

\* C22 witness: the answered object had sentiment and company_info and a key
\* of its own, and lacked the three other keys
C22_Witness ==
    /\ Analyzed
    /\ frame.gemini_model
    /\ frame.answer.resp = "JSON"
    /\ DOMAIN frame.answer.object = { "sentiment", "company_info", "reason" }
    /\ frame.ret["sentiment"] = "NEGATIVE"
    /\ frame.ret["category"] = NA_MISSING
    /\ frame.ret["nissan_mention"] = NA_MISSING

---------------------------------------------------------------------------
(* Failed writes *)

\* Sheet rows whose queued output the rows do not hold
LostRows(updates, rows) ==
    { updates[k].row : k \in { m \in 1..Len(updates) : ~Holds(rows, updates[m]) } }

\* C23: a failed store write (append_rows or batch_update) does not abort
\* the run, and a failed batch_update loses the output of one record at
\* most: the outputs of the other records of the pass are in the store
\* after the step.
C23_FailedWriteLosesOneRecord ==
    [][\A k \in 1..Len(io') :
          (io'[k].call \in { "append_rows", "batch_update" } /\ ~io'[k].ok) =>
              /\ pc' \in { "search", "detail", "sort" } \/ (pc' = "idle" /\ exit_code' = "0")
              /\ io'[k].call = "batch_update" =>
                    Cardinality(LostRows(batch_update_data \o batch_updates, store')) <= 1]_vars

---------------------------------------------------------------------------
(* The environment of a run *)

\* The step read an item of the environment configuration and found none
ConfigurationAbsent(calls) ==
    \E k \in 1..Len(calls) :
        /\ calls[k].call \in { "SPREADSHEET_KEY", "GCP_SERVICE_ACCOUNT_KEY", "GOOGLE_API_KEY" }
        /\ ~calls[k].ok

\* C24: when SPREADSHEET_KEY, GCP_SERVICE_ACCOUNT_KEY or GOOGLE_API_KEY is
\* absent the run stops at startup: the step that finds the item absent ends
\* the run without a call to the site or the store, so no search, append,
\* detail fetch or store write happens in that run.
C24_AbsentConfigurationStopsRun ==
    [][ConfigurationAbsent(io') =>
          /\ pc' = "idle"
          /\ store' = store
          /\ \A k \in 1..Len(io') : io'[k].call \notin { "col_values", "append_rows" }]_vars

---------------------------------------------------------------------------
(* Passes of one run *)

\* C25: within one run get_article_details and get_yahoo_news_comments are
\* called at most once for a record: a step never fetches for a sheet row
\* that was fetched for earlier in the same run (rows keep their number
\* until the sort, which follows the last detail pass).
C25_OneFetchPerRecordAndRun ==
    [][\A k \in 1..Len(io') :
          io'[k].call \in { "get_article_details", "get_yahoo_news_comments" } =>
              io'[k].row \notin fetched_rows]_vars

---------------------------------------------------------------------------
(* Runs over a worksheet with more pending rows than one analysis pass takes *)

\* The URLs of the rows of a long worksheet
BigURLs ==
    << "articles/c01", "articles/c02", "articles/c03", "articles/c04", "articles/c05", "articles/c06",
       "articles/c07", "articles/c08", "articles/c09", "articles/c10", "articles/c11", "articles/c12",
       "articles/c13", "articles/c14", "articles/c15", "articles/c16", "articles/c17", "articles/c18",
       "articles/c19", "articles/c20", "articles/c21", "articles/c22", "articles/c23", "articles/c24",
       "articles/c25", "articles/c26", "articles/c27", "articles/c28", "articles/c29", "articles/c30",
       "articles/c31", "articles/c32" >>

\* Row n of a long worksheet: the body is filled, analysis_flag and sentiment
\* are as given
CapRow(n, analysis_flag, sentiment) ==
    [ EarlierRow("toyota", BigURLs[n]) EXCEPT
        ![HeaderIndex("analysis_flag") + 1] = analysis_flag,
        ![HeaderIndex("sentiment") + 1] = sentiment ]

\* Row n with a body of 30 characters
ShortRow(n) ==
    [ CapRow(n, "TRUE", "") EXCEPT ![HeaderIndex("body_p2") + 1] = DASH ]

\* max_analyze + 1 and max_analyze + 2 rows that wait for their analysis
PendingSheet(len) == [ n \in 1..len |-> CapRow(n, "TRUE", "") ]

\* max_analyze + 1 rows that can be selected and one that cannot: a short
\* body, the flag values "1", "true" and "FALSE", and as the last row one
\* whose analysis failed in an earlier run
MixedSheet ==
    [ n \in 1..(max_analyze + 2) |->
        CASE n = 1 -> ShortRow(n)
          [] n = 2 -> CapRow(n, "1", "")
          [] n = 3 -> CapRow(n, "true", "")
          [] n = 4 -> CapRow(n, "FALSE", "")
          [] n = max_analyze + 2 -> CapRow(n, "TRUE", NA)
          [] OTHER -> CapRow(n, "TRUE", "") ]

CapSheets == { PendingSheet(max_analyze + 1), PendingSheet(max_analyze + 2), MixedSheet }

InitCap == InitOn(CapSheets, { NoFrame })

\* The classifier as one pass meets it: it answers full objects, or objects
\* without the sentiment key, or fails, for every call of the pass alike
CapResponses == { "JSON_FULL", "JSON_PARTIAL", "API_ERROR" }

AnalyzeRowCap ==
    AnalyzeRowWith(IF gemini_log = << >> THEN CapResponses ELSE { gemini_log[1].resp })

NextCap ==
    \/ StartRunOK
    \/ SearchAndAppendOK
    \/ DetailRowOK
    \/ DetailWriteOK
    \/ SortAndFormatOK
    \/ AnalyzeRead
    \/ AnalyzeRowCap
    \/ AnalyzeWriteOK

CapSpec == InitCap /\ [][NextCap]_vars

\* Classifier calls of this run for sheet row `row_index`
CallsOfRow(row_index) == { k \in 1..Len(gemini_log) : gemini_log[k].row = row_index }

\* C26: one analysis pass selects at most 30 rows and calls the classifier
\* at most 30 times, and a row that satisfies the selection condition after
\* the 30th selected row is left untouched by the pass: nothing is queued for
\* it, the classifier is not called for it and the write changes no cell of it.
C26_AtMostThirtyPerPass ==
    /\ [](/\ count <= max_analyze
          /\ Len(gemini_log) <= max_analyze
          /\ Len(batch_updates) <= 2 * max_analyze)
    /\ [][(pc = "analyze" /\ pc' = "idle") =>
             \A j \in 1..Len(all_data) :
                 (NeedsAnalysis(all_data[j]) /\ SelectedBefore(j) >= max_analyze) =>
                     /\ ~IsQueued(batch_updates, j + 1)
                     /\ CallsOfRow(j + 1) = {}
                     /\ store'[j] = store[j]]_vars

\* C26 witness: a pass has ended that classified 30 rows and left the 31st
\* pending row as it was
C26_Witness ==
    /\ pc = "idle" /\ exit_code = "0"
    /\ Len(store) > max_analyze
    /\ \A r \in 1..max_analyze : Cell(store[r], "sentiment") = ClassifierObject["sentiment"]
    /\ store[max_analyze + 1] = CapRow(max_analyze + 1, "TRUE", "")
    /\ NeedsAnalysis(store[max_analyze + 1])

\* Runs follow one another over the long worksheet and every step is taken;
\* nothing is assumed about the answers of the classifier
CapLiveSpec == CapSpec /\ WF_vars(NextCap)

\* The pass has reached the cap and leaves the loop at a row that satisfies
\* the selection condition; data row n is that row or a later one that
\* satisfies the condition
Skipped(n) ==
    /\ pc = "analyze"
    /\ i <= Len(all_data) /\ n >= i /\ n <= Len(all_data)
    /\ CapReached(count)
    /\ NeedsAnalysis(all_data[i])
    /\ NeedsAnalysis(all_data[n])

\* A pass has selected data row n: its analysis result is queued
Selected(n) == pc = "analyze" /\ IsQueued(batch_updates, n + 1)

\* C27: a row that satisfied the selection condition and was skipped because
\* the cap of 30 was reached is selected by the analysis pass of a later run,
\* whatever the classifier answers for the rows ahead of it (stated for the
\* row that follows 30 rows which satisfy the condition).
C27_SkippedRowEventuallyAnalyzed ==
    [](Skipped(max_analyze + 1) => <>Selected(max_analyze + 1))

\* The selection condition as claimed: analysis_flag is TRUE in any case or
\* "1", and sentiment is empty or exactly "N/A"
Pending(row) ==
    /\ Cell(row, "analysis_flag") \in { "TRUE", "True", "true", "1" }
    /\ Cell(row, "sentiment") \in { "", NA }

\* Rows before data row j that satisfy the condition
PendingBefore(j) == Cardinality({ m \in 1..(j - 1) : Pending(all_data[m]) })

\* C28 as claimed: an analysis pass selects a row exactly when analysis_flag
\* is TRUE (any case) or "1" and sentiment is empty or exactly "N/A", so that
\* a row with the "N/A" fallback is selected again by every later run.
C28_SelectedExactlyWhenPending ==
    [][(pc = "analyze" /\ pc' = "idle") =>
          \A j \in 1..Len(all_data) :
              IsQueued(batch_updates, j + 1) <=> Pending(all_data[j])]_vars

\* C28 as amended: an analysis pass selects a row exactly when the condition
\* holds for it and fewer than 30 rows ahead of it satisfy the condition; a
\* row whose sentiment is "N/A (short body)" or "N/A (missing key)" is never
\* selected and never sent to the classifier.
C28_SelectedExactlyWhenPendingBelowCap ==
    /\ [][(pc = "analyze" /\ pc' = "idle") =>
             \A j \in 1..Len(all_data) :
                 IsQueued(batch_updates, j + 1) <=>
                     (Pending(all_data[j]) /\ PendingBefore(j) < max_analyze)]_vars
    /\ [](pc = "analyze" =>
             \A j \in 1..Len(all_data) :
                 Cell(all_data[j], "sentiment") \in { NA_SHORT, NA_MISSING } =>
                     ~IsQueued(batch_updates, j + 1) /\ CallsOfRow(j + 1) = {})

\* C28 witness: a pass has gone over the sheet, selected a row that an
\* earlier run left with "N/A" and passed over a row with one of the two
\* other markers
C28_Witness ==
    /\ pc = "analyze" /\ i > Len(all_data)
    /\ \E j \in 1..Len(all_data) :
          Cell(all_data[j], "sentiment") = NA /\ IsQueued(batch_updates, j + 1)
    /\ \E m \in 1..Len(all_data) :
          /\ Cell(all_data[m], "sentiment") \in { NA_SHORT, NA_MISSING }
          /\ ~IsQueued(batch_updates, m + 1)

---------------------------------------------------------------------------
(* The dedup set and the row numbers of a pass *)

\* C29: throughout a run every URL in existing_urls has a row in the store,
\* also after an update_source_sheet call whose append_rows failed.
C29_KnownUrlsHaveRows ==
    \A u \in existing_urls : Copies(store, u) > 0

\* The URL in column B of data row r
UrlOf(rows, r) == Cell(rows[r], "URL")

\* The queued update e addresses a data row that was read
Addressed(e) == e.row - 1 \in 1..Len(all_data)

\* The body of the queued detail update e is what a fetch for the URL of the
\* row returns
ComputedFrom(e, row) ==
    \E outcome \in DetailOutcomes :
        SubSeq(e.values, 1, MaxPages) =
            get_article_details(PageView(Cell(row, "URL"), outcome)).body

\* The rows hold the values of e in the cells that e addresses
Written(rows, e) ==
    \A c \in 1..Len(e.values) : rows[e.row - 1][e.first_col + c - 1] = e.values[c]

\* C30: every queued update is applied to the row of the record it was
\* computed from: from the read of a pass to its write the store keeps its
\* rows in place (no append, no sort), every queued update addresses a row
\* that was selected and carries what was computed for that row, and the
\* write puts the values into that row and changes no other row.
C30_UpdatesReachTheirRows ==
    /\ [](pc \in { "detail", "analyze" } =>
             /\ Len(store) = Len(all_data)
             /\ \A r \in 1..Len(store) : UrlOf(store, r) = UrlOf(all_data, r))
    /\ [](\A k \in 1..Len(batch_update_data) :
             LET e == batch_update_data[k] IN
             /\ Addressed(e)
             /\ NeedsDetail(all_data[e.row - 1])
             /\ ComputedFrom(e, all_data[e.row - 1]))
    /\ [](\A k \in 1..Len(batch_updates) :
             LET e == batch_updates[k] IN
             /\ Addressed(e)
             /\ NeedsAnalysis(all_data[e.row - 1])
             /\ e.values[1] = NA_SHORT <=>
                   (/\ e.first_col = HeaderIndex("sentiment") + 1
                    /\ JoinedLen(BodyCells(all_data[e.row - 1])) < MinBodyLen))
    /\ [][(pc \in { "detail", "analyze" } /\ io' = << Call("batch_update", 0, TRUE) >>) =>
             LET data == batch_update_data \o batch_updates IN
             /\ Len(store') = Len(store)
             /\ \A k \in 1..Len(data) :
                    /\ Written(store', data[k])
                    /\ UrlOf(store', data[k].row - 1) = UrlOf(all_data, data[k].row - 1)
             /\ \A r \in 1..Len(store) :
                    store'[r] # store[r] => \E k \in 1..Len(data) : data[k].row = r + 1]_vars

\* C30 witness: the detail pass has written the body fetched for the second
\* row into the second row, below the row of another URL
C30_Witness ==
    /\ io = << Call("batch_update", 0, TRUE) >>
    /\ pc \in { "search", "sort" }
    /\ Len(store) = 2
    /\ UrlOf(store, 1) = "articles/a1"
    /\ UrlOf(store, 2) = "articles/b2"
    /\ Cell(store[1], "body_p1") = BODY_FAIL
    /\ Cell(store[2], "body_p1") = "TEXT30A"
    /\ Cell(store[2], "body_p2") = "TEXT30B"

---------------------------------------------------------------------------
(* The YouTube route analyzer of src/route_analyzer.py: its start-up, one   *)
(* run of its main() after the other, and the worksheet it fills.  The      *)
(* whole state of this program is held in `frame`.                          *)

\* Data rows of the route worksheet
RouteRows == 2

URL_COLUMN_INDEX == 4
START_COLUMN_INDEX == 12
END_COLUMN_INDEX == 23

\* for i in range(10)
MaxWaypoints == 10

\* Columns A..X of the route worksheet
RouteColumns == END_COLUMN_INDEX + 1

\* str.strip() on the strings of the model
strip(s) ==
    CASE s = " " -> ""
      [] s = " https://youtu.be/v1 " -> "https://youtu.be/v1"
      [] OTHER -> s

\* "NONE" is None
get_video_id(url) ==
    CASE url = "https://youtu.be/v1" -> "v1"
      [] url = "https://www.youtube.com/watch?v=v2&t=10" -> "v2"
      [] url = "https://youtu.be/" -> ""
      [] OTHER -> "NONE"

\* row[k] if len(row) > k else ""  (k counts from 0)
CellOrEmpty(row, k) == IF Len(row) > k THEN row[k + 1] ELSE ""

\* The last column of a row that holds a value (0: none)
LastFilled(row) ==
    LET filled == { c \in 1..Len(row) : row[c] # "" }
    IN  IF filled = {} THEN 0 ELSE CHOOSE c \in filled : \A d \in filled : d <= c

\* sheet.get_all_values(): the rows up to the last row that holds a value,
\* each cut at the last column that holds a value in any row
get_all_values(sheet) ==
    LET used == { r \in 1..Len(sheet) : LastFilled(sheet[r]) > 0 }
        height == IF used = {} THEN 0 ELSE CHOOSE r \in used : \A q \in used : q <= r
        width == IF used = {} THEN 0
                 ELSE CHOOSE w \in { LastFilled(sheet[r]) : r \in used } :
                          \A r \in used : LastFilled(sheet[r]) <= w
    IN  [r \in 1..height |-> SubSeq(sheet[r], 1, width)]

\* What the model answers with, or the failure of the call (an answer that
\* is no JSON fails in the same try block); "waypoints" is a list, or a number
\* (`sized` is whether len(waypoints) is defined; a number has no items)
RouteAnswers ==
    { "ROUTE_3", "ROUTE_10", "ROUTE_12", "ROUTE_NO_START", "ROUTE_NUMBER",
      "ROUTE_NO_END_KEY", "API_ERROR" }

Waypoints(n) == [k \in 1..n |-> "WAYPOINT"]

Route(start_point, end_point, waypoints) ==
    [start |-> start_point, end |-> end_point, waypoints |-> waypoints, sized |-> TRUE]

\* {'start': '', 'end': '', 'waypoints': []}
EmptyRoute == Route("", "", << >>)

\* analyze_route_with_gemini: the parsed answer when it has the three keys,
\* the empty route otherwise
analyze_route_with_gemini(answer) ==
    CASE answer = "ROUTE_3" -> Route("START_A", "END_A", Waypoints(3))
      [] answer = "ROUTE_10" -> Route("START_A", "END_A", Waypoints(MaxWaypoints))
      [] answer = "ROUTE_12" -> Route("START_A", "END_A", Waypoints(MaxWaypoints + 2))
      [] answer = "ROUTE_NO_START" -> Route("", "END_A", Waypoints(3))
      [] answer = "ROUTE_NUMBER" ->
            [start |-> "START_A", end |-> "END_A", waypoints |-> << >>, sized |-> FALSE]
      [] OTHER -> EmptyRoute

\* A list that keeps every waypoint the model gave
write_data_with_every_waypoint(analysis_result) ==
    << analysis_result.start >> \o analysis_result.waypoints \o << analysis_result.end >>

\* write_data: start_point, ten waypoint cells, end_point
write_data(analysis_result) ==
    << analysis_result.start >>
    \o [k \in 1..MaxWaypoints |->
           IF k <= Len(analysis_result.waypoints) THEN analysis_result.waypoints[k] ELSE ""]
    \o << analysis_result.end >>

\* {'range': f'M{n}:X{n}', 'values': [write_data]}
RouteUpdate(sheet_row_number, values) ==
    [row |-> sheet_row_number, first |-> START_COLUMN_INDEX + 1, values |-> values]

\* The worksheet after one update: the cells from column `first` on, one per value
ApplyRouteUpdate(sheet, u) ==
    [r \in 1..Len(sheet) |->
        IF r # u.row THEN sheet[r]
        ELSE [c \in 1..(IF u.first + Len(u.values) - 1 > Len(sheet[r])
                        THEN u.first + Len(u.values) - 1 ELSE Len(sheet[r])) |->
                 IF c >= u.first /\ c < u.first + Len(u.values)
                 THEN u.values[c - u.first + 1]
                 ELSE IF c <= Len(sheet[r]) THEN sheet[r][c] ELSE ""]]

\* sheet.batch_update(updates); no two updates of a run share a row
ApplyRouteBatch(sheet, updates) ==
    [r \in 1..Len(sheet) |->
        IF \E k \in 1..Len(updates) : updates[k].row = r
        THEN ApplyRouteUpdate(sheet, updates[CHOOSE k \in 1..Len(updates) : updates[k].row = r])[r]
        ELSE sheet[r]]

\* A row of the route worksheet: a title in A, the URL in E, the start point in M
RouteSheetRow(url, start_point) ==
    [c \in 1..RouteColumns |->
        CASE c = 1 -> "title"
          [] c = URL_COLUMN_INDEX + 1 -> url
          [] c = START_COLUMN_INDEX + 1 -> start_point
          [] OTHER -> ""]

\* The header row, with titles in A..E only or in A..X
RouteHeaders ==
    { [c \in 1..RouteColumns |-> IF c <= last THEN "header" ELSE ""] :
          last \in { URL_COLUMN_INDEX + 1, RouteColumns } }

\* URL and start cells of the data rows: empty and blank cells, the URL
\* forms get_video_id tells apart, and rows analyzed before
RouteCells ==
    { << "", "" >>, << " ", "" >>,
      << "https://youtu.be/v1", "" >>, << "https://youtu.be/v1", " " >>,
      << "https://youtu.be/v1", "START_OLD" >>, << " https://youtu.be/v1 ", "" >>,
      << "https://www.youtube.com/watch?v=v2&t=10", "" >>,
      << "https://example.com/x", "" >> }

RouteSheets ==
    { << h >> \o rows :
          h \in RouteHeaders,
          rows \in [1..RouteRows -> { RouteSheetRow(c[1], c[2]) : c \in RouteCells }] }

\* The route analyzer before its first run: no key file on disk
RouteFrames ==
    [ fn : { "route_analyzer" }, phase : { "off" }, status : { "NONE" },
      key_file : { FALSE }, wrote : { FALSE }, sheet : RouteSheets,
      all_data : { << >> }, row_index : { 0 }, updates : { << >> } ]

InitRoute == InitWith(RouteFrames) /\ store = << >>

\* exit(1) at module level
RouteExit1 ==
    [frame EXCEPT !.phase = "off", !.status = "1"]

\* The except and finally clauses of main and the end of the script:
\* service_account_key.json is removed, the exit status is 0
RouteFinally(sheet) ==
    [frame EXCEPT !.phase = "off", !.status = "0", !.key_file = FALSE, !.sheet = sheet,
                  !.all_data = << >>, !.row_index = 0, !.updates = << >>]

\* The start of the script up to the write of service_account_key.json
RouteStart ==
    /\ frame.fn = "route_analyzer"
    /\ frame.phase = "off"
    /\ \E sa_key_json \in BOOLEAN :
          frame' = IF ~sa_key_json
                   THEN [RouteExit1 EXCEPT !.wrote = FALSE]
                   ELSE [frame EXCEPT !.phase = "clients", !.status = "NONE",
                                      !.key_file = TRUE, !.wrote = TRUE]
    /\ PipelineIdle

\* Credentials.from_service_account_file, gspread.authorize, genai.configure
\* and genai.GenerativeModel: all succeed, or one of them raises
RouteClients ==
    /\ frame.fn = "route_analyzer"
    /\ frame.phase = "clients"
    /\ \E ok \in BOOLEAN :
          frame' = IF ok THEN [frame EXCEPT !.phase = "open"] ELSE RouteExit1
    /\ PipelineIdle

\* main up to the row loop: open_by_id and get_all_values succeed or raise
RouteRead ==
    /\ frame.fn = "route_analyzer"
    /\ frame.phase = "open"
    /\ \E ok \in BOOLEAN :
          frame' = IF ok
                   THEN [frame EXCEPT !.phase = "rows",
                                      !.all_data = get_all_values(frame.sheet),
                                      !.row_index = 0, !.updates = << >>]
                   ELSE RouteFinally(frame.sheet)
    /\ PipelineIdle

\* A transcript, an empty transcript, or None
Transcripts == { "TRANSCRIPT", "", "NONE" }

\* One iteration of the row loop of main
RouteRow ==
    /\ frame.fn = "route_analyzer"
    /\ frame.phase = "rows"
    /\ frame.row_index < Len(frame.all_data) - 1
    /\ LET row_index == frame.row_index
           row == frame.all_data[row_index + 2]
           sheet_row_number == row_index + 2
           url == strip(CellOrEmpty(row, URL_COLUMN_INDEX))
           current_start == strip(CellOrEmpty(row, START_COLUMN_INDEX))
           video_id == get_video_id(url)
           continue == [frame EXCEPT !.row_index = row_index + 1]
       IN  \E transcript \in Transcripts, answer \in RouteAnswers :
              LET analysis_result == analyze_route_with_gemini(answer) IN
              frame' =
                 IF url = "" \/ current_start # "" THEN continue
                 ELSE IF video_id \in { "NONE", "" } THEN continue
                 ELSE IF transcript \in { "NONE", "" } THEN continue
                 ELSE IF ~analysis_result.sized THEN RouteFinally(frame.sheet)
                 ELSE [continue EXCEPT !.updates =
                          Append(frame.updates,
                                 RouteUpdate(sheet_row_number, write_data(analysis_result)))]
    /\ PipelineIdle

\* sheet.batch_update(updates) after the loop, if there are updates, and the
\* end of main
RouteWrite ==
    /\ frame.fn = "route_analyzer"
    /\ frame.phase = "rows"
    /\ frame.row_index >= Len(frame.all_data) - 1
    /\ \E ok \in BOOLEAN :
          frame' = IF frame.updates # << >> /\ ok
                   THEN RouteFinally(ApplyRouteBatch(frame.sheet, frame.updates))
                   ELSE RouteFinally(frame.sheet)
    /\ PipelineIdle

NextRoute ==
    \/ RouteStart
    \/ RouteClients
    \/ RouteRead
    \/ RouteRow
    \/ RouteWrite

RouteSpec == InitRoute /\ [][NextRoute]_vars

---------------------------------------------------------------------------
(* Properties of the route analyzer *)

\* The row of the data read by this run that an update addresses
RowOf(u) == frame.all_data[u.row]

\* An update writes the 12 cells M..X of a data row read by this run
WritesMToX(u) ==
    /\ u.row \in 2..Len(frame.all_data)
    /\ u.first = START_COLUMN_INDEX + 1
    /\ u.first + Len(u.values) - 1 = END_COLUMN_INDEX + 1

\* The data rows of the worksheet
DataRows(sheet) == { r \in 2..Len(sheet) : LastFilled(sheet[r]) > 0 }

\* C31 as claimed: no update is queued for a row whose URL cell is empty or
\* whose cell in column M is not empty, every queued update writes exactly
\* the 12 cells M..X of its own row, and a run that starts when the cell in
\* column M of every data row is not empty changes no cell.
C31_NoUpdateForFilledStart ==
    /\ [](\A k \in 1..Len(frame.updates) :
             /\ CellOrEmpty(RowOf(frame.updates[k]), URL_COLUMN_INDEX) # ""
             /\ CellOrEmpty(RowOf(frame.updates[k]), START_COLUMN_INDEX) = ""
             /\ WritesMToX(frame.updates[k]))
    /\ [][(\A r \in DataRows(frame.sheet) :
              CellOrEmpty(frame.sheet[r], START_COLUMN_INDEX) # "")
             => frame'.sheet = frame.sheet]_vars

\* C31 as amended: no update is queued for a row whose URL cell is empty or
\* whose cell in column M holds anything but whitespace, every queued update
\* writes exactly the 12 cells M..X of its own row, and a run that starts
\* when the cell in column M of every data row holds more than whitespace
\* changes no cell.
C31_NoUpdateForStrippedStart ==
    /\ [](\A k \in 1..Len(frame.updates) :
             /\ CellOrEmpty(RowOf(frame.updates[k]), URL_COLUMN_INDEX) # ""
             /\ strip(CellOrEmpty(RowOf(frame.updates[k]), START_COLUMN_INDEX)) = ""
             /\ WritesMToX(frame.updates[k]))
    /\ [][(\A r \in DataRows(frame.sheet) :
              strip(CellOrEmpty(frame.sheet[r], START_COLUMN_INDEX)) # "")
             => frame'.sheet = frame.sheet]_vars

\* C31 witness: a run has passed the row loop with nothing queued over a
\* sheet in which every start is filled, one of them by an earlier run that
\* wrote ten waypoint cells
C31_Witness ==
    /\ frame.phase = "rows"
    /\ frame.row_index = Len(frame.all_data) - 1
    /\ frame.updates = << >>
    /\ DataRows(frame.sheet) = 2..(RouteRows + 1)
    /\ \A r \in DataRows(frame.sheet) :
          strip(frame.sheet[r][START_COLUMN_INDEX + 1]) # ""
    /\ \E r \in DataRows(frame.sheet) :
          /\ frame.sheet[r][START_COLUMN_INDEX + 1] = "START_A"
          /\ \A c \in (START_COLUMN_INDEX + 2)..END_COLUMN_INDEX :
                frame.sheet[r][c] = "WAYPOINT"
          /\ frame.sheet[r][END_COLUMN_INDEX + 1] = "END_A"

\* The program has terminated
RouteTerminated == frame.phase = "off" /\ frame.status # "NONE"

\* C32: when the program has terminated, the file service_account_key.json
\* it wrote at start-up is not on disk, whether main completed, main caught a
\* fatal error, or the initialization of the API clients failed after the
\* file was written.
C32_KeyFileRemoved ==
    (RouteTerminated /\ frame.wrote) => ~frame.key_file

====
